---- MODULE Spec2Model ----
(***************************************************************************)
(* Runtime behaviour of the server that generateServerCode emits           *)
(* (src/src/generator.ts): the per-instance subscription state machine,    *)
(* the session registry of the HTTP transport mode and process shutdown.   *)
(***************************************************************************)
EXTENDS Integers, Sequences, FiniteSets, TLC

\* ------------------------------------------------------------------ bounds
\* Number of transports (each with its own server instance) the HTTP mode
\* may create during one run.
MaxSessions == 1
\* Number of driving-task slots kept per (instance, address).  The emitted
\* code never needs more than one; the second one is there so that a second
\* task for the same address would be visible.
MaxTasksPerUri == 2

Instances == 1..MaxSessions
Slots == 1..MaxTasksPerUri
\* Resource addresses a client may name: one poll-driven resource, one
\* generator-driven resource, and one address no subscribable resource has.
Uris == {"poll", "gen", "plain"}
\* Session identifiers a client may send: 0 is "header missing", the last
\* one is an identifier the server never issues.
ClientIds == 0..(MaxSessions + 1)
\* What readBody makes of a POST body: an initialize request, another JSON
\* value (or no body), or text that is not JSON.
Bodies == {"init", "other", "bad"}

VARIABLES
    startup,        \* the command line and environment: [arg, env], the texts given as --port and MCP_PORT
    mode,           \* "stdio" or "http": the branch main() took
    phase,          \* "running", "closing" (SIGINT handler active), "exited", "crashed"
    transport,      \* [Instances -> "unused" | "created" | "open" | "closed" | "orphan"]
    transports,     \* the session registry: [session id -> transport, 0 = no key]
    closeQueue,     \* the keys the SIGINT handler's for-in loop still has to visit
    shutdownKeys,   \* history: the registry's keys when the SIGINT handler started
    subscriptions,  \* __subscriptions per instance: [uri -> slot of its state object, 0 = no key]
    task,           \* per instance, uri, slot: [pc, stop] of the driving task and its state object
    inflight,       \* per instance, uri: notification sends not yet resolved
    resp,           \* the last HTTP response written: [status, code]
    outputSchema,   \* the output schema of the tool under generation (an OutputSchema, or NoSchema)
    registration,   \* what generateServerCode emitted for that tool: [validator, handler]
    result,         \* what the tool's function returned in the last call
    response,       \* what the tool's registered handler returned for that call
    gen,            \* where generateMcpServer is: parsing ("function", "lines"), "check", ..., "done"
    fn,             \* parseTypeScriptFile: index of the exported function the loop is at
    jsDoc,          \* parseJsDocDescription: its locals, and the lines of the block read so far
    tools,          \* the IR: sequence of ToolDefinition
    prompts,        \* the IR: sequence of PromptDefinition
    resources,      \* the IR: sequence of ResourceDefinition
    files,          \* what generateMcpServer has created in the file system
    server,         \* the generated server code: imports, registrations, capabilities, subscription code
    listed,         \* what a listing callback of the loaded server returned last
    typeTable,      \* the type descriptors of a function's return type: [type id -> descriptor]
    stack,          \* parseTypeToOutputSchema: the frames of its calls in progress
    synth           \* what the outermost call of parseTypeToOutputSchema returned, Pending before

vars == <<startup, mode, phase, transport, transports, closeQueue, shutdownKeys, subscriptions, task,
          inflight, resp, outputSchema, registration, result, response,
          gen, fn, jsDoc, tools, prompts, resources, files, server, listed,
          typeTable, stack, synth>>

subVars == <<subscriptions, task, inflight>>

\* What no step of the running server changes.
toolVars == <<outputSchema, registration, result, response>>
buildVars == <<gen, fn, jsDoc, tools, prompts, resources, files, server, listed>>
synthVars == <<typeTable, stack, synth>>
staticVars == <<startup, toolVars, buildVars, synthVars>>

\* ------------------------------------------------------------------ startup
\* Texts a port may be given as: absent (for --port also: given last, or
\* followed by an empty argument; for MCP_PORT also: set to the empty
\* string), a port number, zero, and text that is not a number.
PortTexts == {"none", "3000", "0", "abc"}
Startups == [arg : PortTexts, env : PortTexts]

\* Values of `port`: undefined, NaN, or a number.
Undefined == [def |-> FALSE, nan |-> FALSE, n |-> 0]
NaN == [def |-> TRUE, nan |-> TRUE, n |-> 0]
Number(n) == [def |-> TRUE, nan |-> FALSE, n |-> n]

\* parseInt(text, 10)
ParseInt(text) ==
    CASE text = "3000" -> Number(3000)
      [] text = "0" -> Number(0)
      [] OTHER -> NaN

\* parseArgs: port is assigned from the argument after --port when that
\* argument is truthy; the result is
\* port ?? (process.env.MCP_PORT ? parseInt(process.env.MCP_PORT, 10) : undefined)
ParseArgs(s) ==
    IF s.arg # "none" THEN ParseInt(s.arg)
    ELSE IF s.env # "none" THEN ParseInt(s.env)
    ELSE Undefined

\* if (port): undefined, NaN and 0 are falsy
Truthy(port) == port.def /\ ~port.nan /\ port.n # 0

\* main: if (port) { HTTP mode } else { stdio mode }
MainBranch(port) == IF Truthy(port) THEN "http" ELSE "stdio"

\* ------------------------------------------------------- subscription state
NoTask == [pc |-> "none", stop |-> FALSE]

\* subscribeMatches: which helper a subscribe request for uri reaches.
SubscribeType(u) ==
    CASE u = "poll" -> "async"
      [] u = "gen" -> "generator"
      [] OTHER -> "none"

Tracked(i, u) == subscriptions[i][u] # 0
\* The state object the map holds for uri.
Entry(i, u) == task[i][u][subscriptions[i][u]]
Active(i, u) == Tracked(i, u) /\ ~Entry(i, u).stop
Stopping(i, u) == Tracked(i, u) /\ Entry(i, u).stop

LiveTasks(i, u) == {k \in Slots : task[i][u][k].pc # "none"}

\* A slot whose task has ended and whose state object the map no longer holds.
FreeSlots(i, u) == {k \in Slots : task[i][u][k].pc = "none" /\ subscriptions[i][u] # k}
FreeSlot(i, u) == CHOOSE k \in FreeSlots(i, u) : \A j \in FreeSlots(i, u) : k <= j

\* Whether requests can still reach instance i and its notifications can
\* still be delivered.
Connected(i) ==
    /\ phase \in {"running", "closing"}
    /\ IF mode = "stdio" THEN i = 1 ELSE transport[i] = "open"

Alive == phase \in {"running", "closing"}

\* ------------------------------------------------- driving-task continuations
\* Each operator is the code a driving task runs between two suspension
\* points.  The result says where the task suspends next (pc "none": the
\* async function has returned), the value of state.stop, whether a
\* notification send was started, and whether __subscriptions.delete(uri) ran.
Suspend(pc, stop) == [pc |-> pc, stop |-> stop, send |-> FALSE, del |-> FALSE]
SendNotify(stop) == [pc |-> "notify", stop |-> stop, send |-> TRUE, del |-> FALSE]
TaskExit(stop) == [pc |-> "none", stop |-> stop, send |-> FALSE, del |-> TRUE]

\* A poll continuation that does not look at state.stop before notifying.
AsyncAfterPollNoStopCheck(stop) == SendNotify(stop)

\* A catch block that swallows the rejection but leaves the entry in the map.
AsyncAfterRejectNoDelete(stop) == Suspend("none", stop)

\* A poll continuation that sends the notification without awaiting it and
\* goes straight back to polling.
AsyncAfterPollNoAwait(stop) ==
    IF ~stop THEN [pc |-> "poll", stop |-> stop, send |-> TRUE, del |-> FALSE]
    ELSE TaskExit(stop)

\* __asyncSubscription: while (!state.stop) { await poll(); ... }
AsyncLoopHead(stop) == IF ~stop THEN Suspend("poll", stop) ELSE TaskExit(stop)
\* poll() resolved: if (!state.stop && !await __notifyUpdated(uri, state)) break;
AsyncAfterPoll(stop) == IF ~stop THEN SendNotify(stop) ELSE AsyncLoopHead(stop)
\* __notifyUpdated returned ok (true) or caught the send's failure (stop = true, false)
AsyncAfterNotify(stop, ok) == IF ok THEN AsyncLoopHead(stop) ELSE TaskExit(TRUE)
\* poll() rejected: catch {} and delete
AsyncAfterReject(stop) == TaskExit(stop)

\* A for-await body without its `if (state.stop) break outer` line.
GenAfterItemNoStopCheck(stop) == SendNotify(stop)

\* __generatorSubscription: outer: while (!state.stop) { for await (... of createGen()) ...
GenLoopHead(stop) == IF ~stop THEN Suspend("next", stop) ELSE TaskExit(stop)
\* an item was produced: if (state.stop) break outer; if (!await __notifyUpdated()) break outer;
\* break leaves the for-await through the iterator's return(), which is awaited.
GenAfterItem(stop) == IF stop THEN Suspend("closing", stop) ELSE SendNotify(stop)
GenAfterNotify(stop, ok) == IF ok THEN Suspend("next", stop) ELSE Suspend("closing", TRUE)
\* A task without the outer while loop: it returns when the producer
\* sequence ends.
GenAfterDoneExits(stop) == TaskExit(stop)

\* the producer sequence ended: back to the outer loop head
GenAfterDone(stop) == GenLoopHead(stop)
\* the producer threw: catch {} and delete
GenAfterThrow(stop) == TaskExit(stop)
\* the iterator's return() settled (either way): delete
GenAfterReturn(stop) == TaskExit(stop)

\* Bound on unresolved notification sends per address.
MaxInflight == 2

\* Task k of (i, u) resumes and runs to its next suspension point with result r;
\* done is the number of notification sends that resolved in this step.
Resume(i, u, k, r, done) ==
    /\ inflight[i][u] - done + (IF r.send THEN 1 ELSE 0) <= MaxInflight
    /\ task' = [task EXCEPT ![i][u][k] =
                   IF r.pc = "none" /\ r.del THEN NoTask
                   ELSE [pc |-> r.pc, stop |-> r.stop]]
    /\ subscriptions' = IF r.del THEN [subscriptions EXCEPT ![i][u] = 0]
                        ELSE subscriptions
    /\ inflight' = [inflight EXCEPT ![i][u] = @ - done + (IF r.send THEN 1 ELSE 0)]
    /\ UNCHANGED <<staticVars, mode, phase, transport, transports, closeQueue, shutdownKeys, resp>>

\* A launch that forgets __subscriptions.set(uri, state).
LaunchNoSet(i, u, first) ==
    /\ FreeSlots(i, u) # {}
    /\ LET k == FreeSlot(i, u) IN
        task' = [task EXCEPT ![i][u][k] = [pc |-> first.pc, stop |-> first.stop]]
    /\ UNCHANGED <<subscriptions, inflight>>

\* ------------------------------------------------------ subscription actions
\* const state = { stop: false }; __subscriptions.set(uri, state); then the
\* async function runs up to its first await.
Launch(i, u, first) ==
    /\ FreeSlots(i, u) # {}
    /\ LET k == FreeSlot(i, u) IN
        /\ subscriptions' = [subscriptions EXCEPT ![i][u] = k]
        /\ task' = [task EXCEPT ![i][u][k] = [pc |-> first.pc, stop |-> first.stop]]
    /\ UNCHANGED inflight

AsyncSubscription(i, u) == Launch(i, u, AsyncLoopHead(FALSE))
GeneratorSubscription(i, u) == Launch(i, u, GenLoopHead(FALSE))

\* The handler without its `if (__subscriptions.has(uri)) return {}` line.
SubscribeHandlerNoHasCheck(i, u) ==
    CASE SubscribeType(u) = "async" -> AsyncSubscription(i, u)
      [] SubscribeType(u) = "generator" -> GeneratorSubscription(i, u)
      [] OTHER -> UNCHANGED subVars

\* A handler whose has-check passes over a Stopping entry: a subscribe then
\* starts a new task while the old one is still leaving its loop.
SubscribeHandlerRestartsStopping(i, u) ==
    IF Active(i, u) THEN UNCHANGED subVars
    ELSE CASE SubscribeType(u) = "async" -> AsyncSubscription(i, u)
           [] SubscribeType(u) = "generator" -> GeneratorSubscription(i, u)
           [] OTHER -> UNCHANGED subVars

\* SubscribeRequestSchema handler
SubscribeHandler(i, u) ==
    IF Tracked(i, u) THEN UNCHANGED subVars
    ELSE CASE SubscribeType(u) = "async" -> AsyncSubscription(i, u)
           [] SubscribeType(u) = "generator" -> GeneratorSubscription(i, u)
           [] OTHER -> UNCHANGED subVars

Subscribe(i, u) ==
    /\ Connected(i)
    /\ SubscribeHandler(i, u)
    /\ UNCHANGED <<staticVars, mode, phase, transport, transports, closeQueue, shutdownKeys, resp>>

\* An unsubscribe that removes the entry itself instead of marking it.
UnsubscribeHandlerDelete(i, u) ==
    /\ subscriptions' = [subscriptions EXCEPT ![i][u] = 0]
    /\ UNCHANGED <<task, inflight>>

\* UnsubscribeRequestSchema handler
UnsubscribeHandler(i, u) ==
    /\ task' = IF Tracked(i, u)
               THEN [task EXCEPT ![i][u][subscriptions[i][u]].stop = TRUE]
               ELSE task
    /\ UNCHANGED <<subscriptions, inflight>>

Unsubscribe(i, u) ==
    /\ Connected(i)
    /\ UnsubscribeHandler(i, u)
    /\ UNCHANGED <<staticVars, mode, phase, transport, transports, closeQueue, shutdownKeys, resp>>

At(i, u, k, pc) == Alive /\ task[i][u][k].pc = pc
IsAsync(u) == SubscribeType(u) = "async"

PollResolved(i, u, k) ==
    /\ At(i, u, k, "poll")
    /\ Resume(i, u, k, AsyncAfterPoll(task[i][u][k].stop), 0)

PollRejected(i, u, k) ==
    /\ At(i, u, k, "poll")
    /\ Resume(i, u, k, AsyncAfterReject(task[i][u][k].stop), 0)

\* server.server.notification(...) resolved
NotifyResolved(i, u, k) ==
    /\ At(i, u, k, "notify")
    /\ Connected(i)
    /\ inflight[i][u] > 0
    /\ Resume(i, u, k, IF IsAsync(u) THEN AsyncAfterNotify(task[i][u][k].stop, TRUE)
                       ELSE GenAfterNotify(task[i][u][k].stop, TRUE), 1)

\* server.server.notification(...) threw or rejected
NotifyFailed(i, u, k) ==
    /\ At(i, u, k, "notify")
    /\ inflight[i][u] > 0
    /\ Resume(i, u, k, IF IsAsync(u) THEN AsyncAfterNotify(task[i][u][k].stop, FALSE)
                       ELSE GenAfterNotify(task[i][u][k].stop, FALSE), 1)

GenYielded(i, u, k) ==
    /\ At(i, u, k, "next")
    /\ Resume(i, u, k, GenAfterItem(task[i][u][k].stop), 0)

GenEnded(i, u, k) ==
    /\ At(i, u, k, "next")
    /\ Resume(i, u, k, GenAfterDone(task[i][u][k].stop), 0)

GenThrew(i, u, k) ==
    /\ At(i, u, k, "next")
    /\ Resume(i, u, k, GenAfterThrow(task[i][u][k].stop), 0)

GenReturned(i, u, k) ==
    /\ At(i, u, k, "closing")
    /\ Resume(i, u, k, GenAfterReturn(task[i][u][k].stop), 0)

TaskStep(i, u, k) ==
    \/ PollResolved(i, u, k)
    \/ PollRejected(i, u, k)
    \/ NotifyResolved(i, u, k)
    \/ NotifyFailed(i, u, k)
    \/ GenYielded(i, u, k)
    \/ GenEnded(i, u, k)
    \/ GenThrew(i, u, k)
    \/ GenReturned(i, u, k)


\* ------------------------------------------------------------ HTTP transport
Registered(sid) == sid \in Instances /\ transports[sid] # 0

\* sendError(res, code, message, httpStatus = 400)
SendError(code, httpStatus) == [status |-> httpStatus, code |-> code]
\* res.writeHead(status).end(...)
Plain(status) == [status |-> status, code |-> 0]

\* A close that marks every entry of the closed transport's server instance
\* with stop, as an unsubscribe of each address would.
SubStoppedOnClose ==
    /\ task' = [i \in Instances |-> [u \in Uris |-> [k \in Slots |->
                  IF /\ transport'[i] = "closed" /\ transport[i] # "closed"
                     /\ subscriptions[i][u] = k
                  THEN [task[i][u][k] EXCEPT !.stop = TRUE]
                  ELSE task[i][u][k]]]]
    /\ UNCHANGED <<subscriptions, inflight>>

\* No line of the request listener or of the SIGINT handler touches
\* __subscriptions or a state object.

SubUnchanged == UNCHANGED <<subscriptions, task, inflight>>

\* An onclose callback that leaves the registry as it is.
OnCloseKeepsKey(reg, t) == reg

\* transport.onclose: const sid = transport.sessionId; if (sid && transports[sid]) delete transports[sid]
OnClose(reg, t) == [sid \in Instances |-> IF reg[sid] = t /\ sid = t THEN 0 ELSE reg[sid]]

\* A POST branch whose creation test is only `isInitializeRequest(body)`: an
\* initialize request then creates a session whatever identifier it carries.
PostRouteAnyInitialize(sid, body) ==
    IF body = "bad" THEN "throw"
    ELSE IF sid # 0 /\ Registered(sid) THEN "reuse"
    ELSE IF body = "init" THEN "create"
    ELSE "reject"

\* The POST branch up to transport.handleRequest: readBody rejects on text
\* that is not JSON; then if (sessionId && transports[sessionId]) ... else if
\* (!sessionId && isInitializeRequest(body)) ... else sendError(-32000).
PostRoute(sid, body) ==
    IF body = "bad" THEN "throw"
    ELSE IF sid # 0 /\ Registered(sid) THEN "reuse"
    ELSE IF sid = 0 /\ body = "init" THEN "create"
    ELSE "reject"

\* A POST routed to "create": a new transport and a new server instance,
\* connected before the request is handled.
PostInitialize(sid, body) ==
    /\ mode = "http" /\ Alive
    /\ PostRoute(sid, body) = "create"
    /\ \E t \in Instances :
        /\ transport[t] = "unused"
        /\ \A j \in Instances : j < t => transport[j] # "unused"
        /\ transport' = [transport EXCEPT ![t] = "created"]
    /\ UNCHANGED <<staticVars, mode, phase, transports, closeQueue, shutdownKeys, resp>>
    /\ SubUnchanged

\* transport.handleRequest on the new transport: the SDK issues the session
\* id and calls onsessioninitialized, or throws before doing so.
InitializeHandled(t, ok) ==
    /\ mode = "http" /\ Alive
    /\ transport[t] = "created"
    /\ IF ok
       THEN /\ transport' = [transport EXCEPT ![t] = "open"]
            /\ transports' = [transports EXCEPT ![t] = t]
            /\ resp' = Plain(200)
       ELSE /\ transport' = [transport EXCEPT ![t] = "orphan"]
            /\ UNCHANGED transports
            /\ resp' = SendError(-32603, 500)
    /\ UNCHANGED <<staticVars, mode, phase, closeQueue, shutdownKeys>>
    /\ SubUnchanged

\* transport.handleRequest on a registered transport; the SDK answers or throws.
\* In every request action, ok is the outcome of the SDK call the request
\* makes; a request that makes none is taken with ok = TRUE only.
Forward(sid, ok) ==
    /\ resp' = IF ok THEN Plain(200) ELSE SendError(-32603, 500)
    /\ UNCHANGED <<transport, transports>>

\* POST branch after readBody; body is "init", "other" or "bad" (not JSON).
PostResponse(sid, body, ok) ==
    CASE PostRoute(sid, body) = "throw" ->
            /\ resp' = SendError(-32603, 500)
            /\ UNCHANGED <<transport, transports>>
      [] PostRoute(sid, body) = "reuse" -> Forward(sid, ok)
      [] OTHER ->
            /\ resp' = SendError(-32000, 400)
            /\ UNCHANGED <<transport, transports>>

HttpPost(sid, body, ok) ==
    /\ mode = "http" /\ Alive
    /\ PostRoute(sid, body) # "create"
    /\ ok \/ PostRoute(sid, body) = "reuse"
    /\ PostResponse(sid, body, ok)
    /\ UNCHANGED <<staticVars, mode, phase, closeQueue, shutdownKeys>>
    /\ SubUnchanged

\* A GET branch that tests only `!sessionId`: an unregistered identifier then
\* reaches transports[sessionId].handleRequest, which throws on undefined.
GetResponseMissingOnly(sid, ok) ==
    IF sid = 0 THEN
        /\ resp' = SendError(-32000, 400)
        /\ UNCHANGED <<transport, transports>>
    ELSE IF Registered(sid) THEN Forward(sid, ok)
    ELSE
        /\ resp' = SendError(-32603, 500)
        /\ UNCHANGED <<transport, transports>>

GetResponse(sid, ok) ==
    IF sid = 0 \/ ~Registered(sid) THEN
        /\ resp' = SendError(-32000, 400)
        /\ UNCHANGED <<transport, transports>>
    ELSE Forward(sid, ok)

HttpGet(sid, ok) ==
    /\ mode = "http" /\ Alive
    /\ ok \/ Registered(sid)
    /\ GetResponse(sid, ok)
    /\ UNCHANGED <<staticVars, mode, phase, closeQueue, shutdownKeys>>
    /\ SubUnchanged

\* DELETE: the SDK's handler closes the transport, which runs onclose.
DeleteResponse(sid, ok) ==
    IF sid # 0 /\ Registered(sid) THEN
        IF ok THEN
            /\ transport' = [transport EXCEPT ![transports[sid]] = "closed"]
            /\ transports' = OnClose(transports, transports[sid])
            /\ resp' = Plain(200)
        ELSE
            /\ resp' = SendError(-32603, 500)
            /\ UNCHANGED <<transport, transports>>
    ELSE
        /\ resp' = Plain(200)
        /\ UNCHANGED <<transport, transports>>

HttpDelete(sid, ok) ==
    /\ mode = "http" /\ Alive
    /\ ok \/ Registered(sid)
    /\ DeleteResponse(sid, ok)
    /\ UNCHANGED <<staticVars, mode, phase, closeQueue, shutdownKeys>>
    /\ SubUnchanged

\* any other method: 405
HttpOtherMethod ==
    /\ mode = "http" /\ Alive
    /\ resp' = Plain(405)
    /\ UNCHANGED <<staticVars, mode, phase, transport, transports, closeQueue, shutdownKeys>>
    /\ SubUnchanged

\* a path other than /mcp: 404
HttpOtherPath ==
    /\ mode = "http" /\ Alive
    /\ resp' = Plain(404)
    /\ UNCHANGED <<staticVars, mode, phase, transport, transports, closeQueue, shutdownKeys>>
    /\ SubUnchanged

\* const url = new URL(req.url ?? "/", ...) runs before the try block: on a
\* request target the URL parser rejects (such as "//") the request listener's
\* promise rejects with nothing written to res and nobody handling the
\* rejection, which ends the process unless the runtime is set to go on.
HttpBadUrl ==
    /\ mode = "http" /\ Alive
    /\ phase' \in {"crashed", phase}
    /\ UNCHANGED <<staticVars, mode, transport, transports, closeQueue, shutdownKeys, resp>>
    /\ SubUnchanged

\* ------------------------------------------------------------------ shutdown
RegistryKeys == {sid \in Instances : transports[sid] # 0}

\* for (const sessionId in transports) { await transports[sessionId].close(); }
\* httpServer.close(); process.exit(0);
\* queue: the keys the loop has not visited; a key deleted meanwhile is skipped.
ShutdownLoop(queue, ok) ==
    LET left == {sid \in queue : transports[sid] # 0} IN
    IF left = {} THEN
        /\ phase' = "exited"
        /\ closeQueue' = {}
        /\ UNCHANGED <<transport, transports>>
    ELSE LET sid == CHOOSE x \in left : \A y \in left : x <= y IN
        IF ok THEN
            /\ transport' = [transport EXCEPT ![transports[sid]] = "closed"]
            /\ transports' = OnClose(transports, transports[sid])
            /\ closeQueue' = left \ {sid}
            /\ phase' = "closing"
        ELSE
            \* close() threw: the handler's promise rejects and nobody handles it
            /\ phase' \in {"crashed", "running"}
            /\ closeQueue' = {}
            /\ UNCHANGED <<transport, transports>>

\* process.on("SIGINT", ...) in HTTP mode; no handler is installed in stdio
\* mode, where the signal's default action ends the process.
Sigint(ok) ==
    /\ phase = "running"
    /\ ok \/ (mode = "http" /\ RegistryKeys # {})
    /\ IF mode = "http" THEN ShutdownLoop(RegistryKeys, ok)
       ELSE /\ phase' = "exited"
            /\ UNCHANGED <<transport, transports, closeQueue>>
    /\ shutdownKeys' = RegistryKeys
    /\ UNCHANGED <<staticVars, mode, resp>>
    /\ SubUnchanged

\* the handler resumes after an awaited close()
ShutdownResume(ok) ==
    /\ phase = "closing"
    /\ ok \/ (closeQueue \cap RegistryKeys # {})
    /\ ShutdownLoop(closeQueue, ok)
    /\ UNCHANGED <<staticVars, mode, resp, shutdownKeys>>
    /\ SubUnchanged

\* ------------------------------------------------- tool output: IR and values
\* Number of members an object schema may have.
MaxMembers == 2

\* outputSchema?: undefined
NoSchema == [type |-> "undefined"]

\* OutputSchema (parser.ts): absent properties are the empty sequence, absent
\* items and valueType are NoSchema.
Prim(t) == [type |-> t, properties |-> <<>>, items |-> NoSchema, valueType |-> NoSchema]
ArrayOf(items) == [type |-> "array", properties |-> <<>>, items |-> items, valueType |-> NoSchema]
RecordOf(v) == [type |-> "record", properties |-> <<>>, items |-> NoSchema, valueType |-> v]
ObjectOf(props) == [type |-> "object", properties |-> props, items |-> NoSchema, valueType |-> NoSchema]

\* OutputSchemaProperty as parseTypeToOutputSchema builds it from the member's
\* schema: type, items and properties are copied, valueType is not.
PropertyOf(name, schema, optional) ==
    [name |-> name, type |-> schema.type, optional |-> optional,
     items |-> schema.items, properties |-> schema.properties]

Primitives == {Prim("string"), Prim("number"), Prim("boolean")}

\* Member names, `content` first, and the shapes a member may have: primitive,
\* array, record and nested object.
AllMemberNames == <<"content", "id", "tags", "meta">>
MemberShapes ==
    {Prim("string"), Prim("number"), ArrayOf(Prim("string")), RecordOf(Prim("string")),
     ObjectOf(<<PropertyOf("id", Prim("number"), FALSE)>>)}
Absent == [type |-> "absent"]

\* The object schema whose i-th possible member is choice[i]: Absent, or
\* [schema, optional].
ObjectFrom(choice) ==
    LET present == SelectSeq([i \in 1..MaxMembers |-> i], LAMBDA i : choice[i] # Absent)
    IN ObjectOf([j \in 1..Len(present) |->
                    PropertyOf(AllMemberNames[present[j]], choice[present[j]].schema,
                               choice[present[j]].optional)])

ObjectSchemas ==
    {ObjectFrom(choice) :
        choice \in [1..MaxMembers -> {Absent} \cup [schema : MemberShapes, optional : BOOLEAN]]}
    \ {ObjectOf(<<>>)}

\* The schemas a tool of the IR may carry.
OutputSchemas ==
    {NoSchema} \cup Primitives \cup ObjectSchemas
    \cup {ArrayOf(sch) : sch \in Primitives \cup {ObjectOf(<<PropertyOf("id", Prim("number"), FALSE)>>)}}
    \cup {RecordOf(sch) : sch \in Primitives}

\* Values a tool function may return, by shape only.
NoValue == [t |-> "undefined"]
PrimValue(t) == [t |-> t, elems |-> <<>>, fields |-> <<>>]
ArrayValue(elems) == [t |-> "array", elems |-> elems, fields |-> <<>>]
ObjectValue(fields) == [t |-> "object", elems |-> <<>>, fields |-> fields]

\* The schema of the values a member holds; the value type of a record member
\* is not in the IR and is taken to be string here.
SchemaOfProperty(p) ==
    [type |-> p.type, properties |-> p.properties, items |-> p.items,
     valueType |-> IF p.type = "record" THEN Prim("string") ELSE NoSchema]

RECURSIVE ValuesOf(_), FieldsOf(_)
\* Values of a function whose return type synthesizes to schema.
ValuesOf(schema) ==
    CASE schema.type \in {"string", "number", "boolean"} -> {PrimValue(schema.type)}
      [] schema.type = "array" ->
            {ArrayValue(<<>>)} \cup {ArrayValue(<<v>>) : v \in ValuesOf(schema.items)}
      [] schema.type = "record" ->
            {ObjectValue(<<>>)}
            \cup {ObjectValue(<<[name |-> "key", value |-> v]>>) : v \in ValuesOf(schema.valueType)}
      [] schema.type = "object" -> {ObjectValue(fs) : fs \in FieldsOf(schema.properties)}
      [] OTHER -> {NoValue}

FieldsOf(props) ==
    IF props = <<>> THEN {<<>>}
    ELSE LET p == Head(props)
             with == {<<[name |-> p.name, value |-> v]>> \o rest :
                         v \in ValuesOf(SchemaOfProperty(p)), rest \in FieldsOf(Tail(props))}
         IN IF p.optional THEN with \cup FieldsOf(Tail(props)) ELSE with

\* ------------------------------------------------------ tool output: emission
\* Validator expressions of the emitted code.
NoZod == [z |-> "none"]
Z(kind) == [z |-> kind, of |-> NoZod, shape |-> <<>>, optional |-> FALSE]
ZArray(of) == [z |-> "array", of |-> of, shape |-> <<>>, optional |-> FALSE]
ZRecord(of) == [z |-> "record", of |-> of, shape |-> <<>>, optional |-> FALSE]
ZObject(shape) == [z |-> "object", of |-> NoZod, shape |-> shape, optional |-> FALSE]
ZOptional(zod) == [zod EXCEPT !.optional = TRUE]

RECURSIVE outputSchemaToZod(_), outputSchemaPropertyToZod(_)
\* outputSchemaToZod(schema, indent); indent only changes white space.
outputSchemaToZod(schema) ==
    CASE schema.type \in {"string", "number", "boolean"} -> Z(schema.type)
      [] schema.type = "array" ->
            IF schema.items # NoSchema THEN ZArray(outputSchemaToZod(schema.items))
            ELSE ZArray(Z("unknown"))
      [] schema.type = "record" ->
            IF schema.valueType # NoSchema THEN ZRecord(outputSchemaToZod(schema.valueType))
            ELSE ZRecord(Z("unknown"))
      [] schema.type = "object" ->
            ZObject([i \in 1..Len(schema.properties) |->
                        [name |-> schema.properties[i].name,
                         zod |-> outputSchemaPropertyToZod(schema.properties[i])]])
      [] OTHER -> Z("unknown")

\* outputSchemaPropertyToZod(prop, indent)
outputSchemaPropertyToZod(prop) ==
    LET zodType ==
          CASE prop.type \in {"string", "number", "boolean"} -> Z(prop.type)
            [] prop.type = "array" ->
                  IF prop.items # NoSchema THEN ZArray(outputSchemaToZod(prop.items))
                  ELSE ZArray(Z("unknown"))
            [] prop.type = "object" ->
                  ZObject([i \in 1..Len(prop.properties) |->
                              [name |-> prop.properties[i].name,
                               zod |-> outputSchemaPropertyToZod(prop.properties[i])]])
            [] OTHER -> Z("unknown")
    IN IF prop.optional THEN ZOptional(zodType) ELSE zodType

\* The value of member name in an object value, NoValue when it has none.
FieldValue(v, name) ==
    IF \E i \in 1..Len(v.fields) : v.fields[i].name = name
    THEN v.fields[CHOOSE i \in 1..Len(v.fields) : v.fields[i].name = name].value
    ELSE NoValue

RECURSIVE ZodAccepts(_, _)
\* Whether the validator accepts v (zod: objects ignore unknown keys).
ZodAccepts(zod, v) ==
    CASE zod.z = "unknown" -> TRUE
      [] v = NoValue -> zod.optional
      [] zod.z \in {"string", "number", "boolean"} -> v.t = zod.z
      [] zod.z = "array" ->
            v.t = "array" /\ \A i \in 1..Len(v.elems) : ZodAccepts(zod.of, v.elems[i])
      [] zod.z = "record" ->
            v.t = "object" /\ \A i \in 1..Len(v.fields) : ZodAccepts(zod.of, v.fields[i].value)
      [] zod.z = "object" ->
            v.t = "object"
            /\ \A i \in 1..Len(zod.shape) :
                  ZodAccepts(zod.shape[i].zod, FieldValue(v, zod.shape[i].name))
      [] OTHER -> FALSE

\* Texts of the response: JSON.stringify(result, ...) and the result itself.
NoText == [of |-> "none"]
JsonStringify(v) == [of |-> "json", value |-> v]
Itself(v) == [of |-> "itself", value |-> v]

\* A generator without the CallToolResult case.
isCallToolResultNever(schema) == FALSE

\* A generator that also counts a record schema as structured output.
hasOutputSchemaWithRecord(schema) ==
    schema # NoSchema /\ schema.type \in {"object", "array", "record"}

\* tool.outputSchema && (type === "object" || type === "array")
hasOutputSchema(schema) == schema # NoSchema /\ schema.type \in {"object", "array"}
isArrayOutput(schema) == schema # NoSchema /\ schema.type = "array"
\* type === "object" && properties?.some(p => p.name === "content" && p.type === "array")
isCallToolResult(schema) ==
    /\ schema # NoSchema
    /\ schema.type = "object"
    /\ \E i \in 1..Len(schema.properties) :
          schema.properties[i].name = "content" /\ schema.properties[i].type = "array"

\* outputSchemaStr: the validator the registration carries, NoZod when none.
outputSchemaStr(schema) ==
    IF isCallToolResult(schema) THEN NoZod
    ELSE IF hasOutputSchema(schema) THEN
        IF isArrayOutput(schema)
        THEN ZObject(<<[name |-> "results", zod |-> outputSchemaToZod(schema)]>>)
        ELSE outputSchemaToZod(schema)
    ELSE NoZod

\* A return statement that wraps every structured result under `results`.
returnStatementAlwaysWrapped(schema) ==
    IF isCallToolResult(schema) THEN "result"
    ELSE IF hasOutputSchema(schema) THEN "wrapped"
    ELSE "text"

\* returnStatement: which of the four return statements is emitted.
returnStatement(schema) ==
    IF isCallToolResult(schema) THEN "result"
    ELSE IF hasOutputSchema(schema) THEN
        IF isArrayOutput(schema) THEN "wrapped" ELSE "structured"
    ELSE "text"

NoRegistration == [validator |-> NoZod, handler |-> "none"]
NoResponse == [is |-> "none"]

\* The four emitted return statements, applied to the tool function's result.
Built(text, structured) ==
    [is |-> "built", text |-> text, structuredContent |-> structured, result |-> NoValue]
HandlerReturn(handler, value) ==
    CASE handler = "result" ->
            [is |-> "result", text |-> NoText, structuredContent |-> NoValue, result |-> value]
      [] handler = "wrapped" ->
            Built(JsonStringify(value), ObjectValue(<<[name |-> "results", value |-> value]>>))
      [] handler = "structured" -> Built(JsonStringify(value), value)
      [] OTHER ->
            Built(IF value.t = "string" THEN Itself(value) ELSE JsonStringify(value), NoValue)

\* The variables of the running server, which tool generation leaves alone.
serverVars == <<startup, mode, phase, transport, transports, closeQueue, shutdownKeys,
                subscriptions, task, inflight, resp>>

\* generateServerCode, toolRegistrations: the registration of one tool.
GenerateToolRegistration ==
    /\ registration = NoRegistration
    /\ registration' = [validator |-> outputSchemaStr(outputSchema),
                        handler |-> returnStatement(outputSchema)]
    /\ UNCHANGED <<outputSchema, result, response>>
    /\ UNCHANGED <<serverVars, buildVars, synthVars>>

\* A call of the registered tool whose function returns value.
CallTool(value) ==
    /\ registration # NoRegistration
    /\ result' = value
    /\ response' = HandlerReturn(registration.handler, value)
    /\ UNCHANGED <<outputSchema, registration>>
    /\ UNCHANGED <<serverVars, buildVars, synthVars>>

\* -------------------------------------------------------- schema synthesis
\* Number of structured types (Promise, array, string-indexed and object
\* types) in the type graph of a return type, and the depth the call stack of
\* the walk may reach: two frames more than the longest path without a
\* repeated type.
MaxTypes == 2
MaxDepth == MaxTypes + 2

\* Types are named by numbers: the structured types of the graph by 1, 2, ...
\* (1 is the return type itself), string, void and Date by fixed numbers.
StringType == 0
VoidType == -1
DateType == -2
LeafTypes == {StringType, VoidType, DateType}
TypeRefs(n) == LeafTypes \cup 1..n

\* A type descriptor: what typeToOutputSchemaType and the tests of
\* parseTypeToOutputSchema make of the type ("index": an object type with a
\* string index signature; "builtin": Date, RegExp or Error), and the types
\* the walk goes into, in order: the type argument, the element type, the
\* index type, or the types of the properties.
Leaf(kind) == [kind |-> kind, children |-> <<>>]
StructuredTypes(n) ==
    {[kind |-> k, children |-> <<c>>] : k \in {"promise", "array", "index"}, c \in TypeRefs(n)}
    \cup {[kind |-> "object", children |-> <<>>]}
    \cup {[kind |-> "object", children |-> <<c>>] : c \in TypeRefs(n)}
    \cup {[kind |-> "object", children |-> <<c, l>>] : c \in TypeRefs(n), l \in LeafTypes}

TypeOf(table, t) ==
    CASE t = StringType -> Leaf("string")
      [] t = VoidType -> Leaf("void")
      [] t = DateType -> Leaf("builtin")
      [] OTHER -> table[t]

\* The structured types a type refers to, and the closure of that relation.
Referenced(table, t) ==
    {c \in 1..Len(table) : \E j \in 1..Len(table[t].children) : table[t].children[j] = c}

RECURSIVE Closure(_, _)
Closure(table, set) ==
    LET next == set \cup UNION {Referenced(table, t) : t \in set}
    IN IF next = set THEN set ELSE Closure(table, next)

ReachableTypes(table) == IF table = <<>> THEN {} ELSE Closure(table, {1})

\* Some type the walk reaches refers to itself, directly or through others.
SelfReferential(table) ==
    \E t \in ReachableTypes(table) : t \in Closure(table, Referenced(table, t))

\* The type graphs of up to MaxTypes structured types, all of them reachable
\* from the return type.
TypeTables ==
    UNION {{table \in [1..n -> StructuredTypes(n)] : ReachableTypes(table) = 1..n} :
              n \in 1..MaxTypes}

\* Names of the properties of an object type, in declaration order.
PropNames == <<"id", "meta", "tags">>

\* One call of parseTypeToOutputSchema in progress: its type, and what its
\* recursive calls have returned so far.
Frame(t) == [type |-> t, acc |-> <<>>]
Pending == [type |-> "pending"]

\* parseTypeToOutputSchema(type), given what its recursive calls returned.
parseTypeToOutputSchema(d, acc) ==
    CASE d.kind = "string" -> Prim("string")
      [] d.kind = "promise" -> acc[1]
      [] d.kind = "array" -> ArrayOf(IF acc[1] # NoSchema THEN acc[1] ELSE Prim("string"))
      [] d.kind = "index" -> RecordOf(IF acc[1] # NoSchema THEN acc[1] ELSE Prim("string"))
      [] d.kind = "object" ->
            LET kept == SelectSeq([i \in 1..Len(acc) |-> i], LAMBDA i : acc[i] # NoSchema)
                schemaProperties ==
                    [j \in 1..Len(kept) |-> PropertyOf(PropNames[kept[j]], acc[kept[j]], FALSE)]
            IN IF schemaProperties = <<>> THEN NoSchema ELSE ObjectOf(schemaProperties)
      [] OTHER -> NoSchema

\* A walk that returns undefined for a type it is already inside.
EnterGuarded(frames, t) ==
    IF \E i \in 1..Len(frames) : frames[i].type = t
    THEN [frames EXCEPT ![Len(frames)].acc = Append(@, NoSchema)]
    ELSE Append(frames, Frame(t))

\* The recursive call parseTypeToOutputSchema(t).
Enter(frames, t) == Append(frames, Frame(t))

\* The call on top of the stack makes its next recursive call.
SynthCall ==
    /\ stack # <<>>
    /\ Len(stack) < MaxDepth
    /\ LET top == stack[Len(stack)]
           d == TypeOf(typeTable, top.type)
       IN /\ Len(top.acc) < Len(d.children)
          /\ stack' = Enter(stack, d.children[Len(top.acc) + 1])
    /\ UNCHANGED <<typeTable, synth>>
    /\ UNCHANGED <<serverVars, toolVars, buildVars>>

\* The call on top of the stack has made all its recursive calls and returns.
SynthReturn ==
    /\ stack # <<>>
    /\ LET top == stack[Len(stack)]
           d == TypeOf(typeTable, top.type)
           value == parseTypeToOutputSchema(d, top.acc)
       IN /\ Len(top.acc) = Len(d.children)
          /\ IF Len(stack) = 1
             THEN stack' = <<>> /\ synth' = value
             ELSE /\ stack' = [SubSeq(stack, 1, Len(stack) - 1)
                                  EXCEPT ![Len(stack) - 1].acc = Append(@, value)]
                  /\ UNCHANGED synth
    /\ UNCHANGED typeTable
    /\ UNCHANGED <<serverVars, toolVars, buildVars>>

\* No synthesis is under way.
NoSynth ==
    /\ typeTable = <<>>
    /\ stack = <<>>
    /\ synth = Pending

\* ----------------------------------------------------------------- extraction
\* Number of exported functions of the input module, and of lines of one
\* comment block (the lines of a block are distinct).
MaxFns == 2
MaxDocLines == 3

\* Names of the exported functions, in source order.
FnNames == <<"add", "sub", "mul", "div">>
\* Names a @tool or @prompt tag may give: the second function's name, and a
\* name no function has.
CustomNames == {"sub", "plus"}
\* The URI a resource tag carries.
TagUri == "sys://a"

\* The content lines of a comment block, trimmed: description text, or a tag
\* with its argument ("": none).
DocLines ==
    {[tag |-> "text", arg |-> ""],
     [tag |-> "@resource", arg |-> TagUri],
     [tag |-> "@uri", arg |-> TagUri],
     [tag |-> "@tool", arg |-> ""],
     [tag |-> "@prompt", arg |-> ""]}
    \cup [tag : {"@tool", "@prompt"}, arg : CustomNames]

\* parseJsDocDescription, before its loop; "" stands for undefined.
EmptyJsDoc ==
    [uri |-> "", toolName |-> "", promptName |-> "", isPrompt |-> FALSE,
     descriptionLines |-> 0, lines |-> {}]

\* parseJsDocDescription, one iteration of `for (const line of lines)`: the
\* chain of startsWith tests; a line starting with "@" that matches none of
\* them is skipped.
JsDocLine(d, l) ==
    LET seen == [d EXCEPT !.lines = @ \cup {l}] IN
    CASE l.tag = "@resource" -> IF l.arg # "" THEN [seen EXCEPT !.uri = l.arg] ELSE seen
      [] l.tag = "@tool" -> [seen EXCEPT !.toolName = l.arg]
      [] l.tag = "@prompt" -> [seen EXCEPT !.isPrompt = TRUE, !.promptName = l.arg]
      [] l.tag = "text" -> [seen EXCEPT !.descriptionLines = @ + 1]
      [] OTHER -> seen

\* A classification that lets a prompt tag win over a resource tag.
JsDocKindPromptFirst(d) ==
    IF d.isPrompt THEN "prompt"
    ELSE IF d.uri # "" THEN "resource"
    ELSE "tool"

\* parseJsDocDescription, after the loop: if (uri) resource; if (isPrompt)
\* prompt; otherwise tool.
JsDocKind(d) ==
    IF d.uri # "" THEN "resource"
    ELSE IF d.isPrompt THEN "prompt"
    ELSE "tool"

\* jsDoc.toolName || name
NameOr(custom, name) == IF custom # "" THEN custom ELSE name

\* The functions of the input module, beyond their comment blocks: `add` and
\* `mul` take one parameter; the source text has `add.subscribe = async
\* function*`, `mul.subscribe = async function`, `add.list =` and `sub.list =`.
\* fn.getParameters().length
ParametersOf(name) == IF name \in {"add", "mul"} THEN 1 ELSE 0
\* detectSubscribeType: "generator", "async", or "" for undefined
detectSubscribeType(name) ==
    CASE name = "add" -> "generator"
      [] name = "mul" -> "async"
      [] OTHER -> ""
\* detectHasList
detectHasList(name) == name \in {"add", "sub"}

\* The definitions parseTypeScriptFile pushes; fn records which exported
\* function the definition came from and is read by no operator of the
\* generator.  No line of DocLines is a @mimeType tag: mimeType is undefined.
ToolDefinition(d, name) == [name |-> NameOr(d.toolName, name), fn |-> name]
PromptDefinition(d, name) == [name |-> NameOr(d.promptName, name), fn |-> name]
ResourceDefinition(d, name) ==
    [name |-> name, uri |-> d.uri, fn |-> name, mimeType |-> "",
     parameters |-> ParametersOf(name),
     subscribeType |-> detectSubscribeType(name),
     hasList |-> detectHasList(name)]

\* The exported functions of the module, once the loop has passed them.
Exports == {FnNames[i] : i \in 1..(fn - 1)}

\* const name = fn.getName(); jsDocNodes.length === 0: continue
SkipFunction ==
    /\ gen = "function" /\ fn <= MaxFns
    /\ fn' = fn + 1
    /\ UNCHANGED <<gen, jsDoc, tools, prompts, resources, files, server>>
    /\ UNCHANGED <<serverVars, toolVars, listed, synthVars>>

\* parseJsDocDescription(jsDocText) starts on the function's comment block
BeginComment ==
    /\ gen = "function" /\ fn <= MaxFns
    /\ gen' = "lines"
    /\ jsDoc' = EmptyJsDoc
    /\ UNCHANGED <<fn, tools, prompts, resources, files, server>>
    /\ UNCHANGED <<serverVars, toolVars, listed, synthVars>>

ReadLine(l) ==
    /\ gen = "lines"
    /\ l \notin jsDoc.lines
    /\ Cardinality(jsDoc.lines) < MaxDocLines
    /\ jsDoc' = JsDocLine(jsDoc, l)
    /\ UNCHANGED <<gen, fn, tools, prompts, resources, files, server>>
    /\ UNCHANGED <<serverVars, toolVars, listed, synthVars>>

\* The block has ended: if (!jsDoc.description) continue; switch (jsDoc.kind)
EndOfComment ==
    /\ gen = "lines"
    /\ gen' = "function"
    /\ fn' = fn + 1
    /\ LET kind == IF jsDoc.descriptionLines = 0 THEN "none" ELSE JsDocKind(jsDoc) IN
        /\ tools' = IF kind = "tool"
                    THEN Append(tools, ToolDefinition(jsDoc, FnNames[fn])) ELSE tools
        /\ prompts' = IF kind = "prompt"
                      THEN Append(prompts, PromptDefinition(jsDoc, FnNames[fn])) ELSE prompts
        /\ resources' = IF kind = "resource"
                        THEN Append(resources, ResourceDefinition(jsDoc, FnNames[fn]))
                        ELSE resources
    /\ UNCHANGED <<jsDoc, files, server>>
    /\ UNCHANGED <<serverVars, toolVars, listed, synthVars>>

\* the loop over exportedFunctions ends; parseTypeScriptFile returns
EndOfFile ==
    /\ gen = "function"
    /\ gen' = "check"
    /\ jsDoc' = EmptyJsDoc
    /\ UNCHANGED <<fn, tools, prompts, resources, files, server>>
    /\ UNCHANGED <<serverVars, toolVars, listed, synthVars>>

\* ----------------------------------------------------------------- generation
\* A generateMcpServer without its throw.
AfterParseNoThrow(t, p, r) == "mkdir"

\* if (tools.length === 0 && prompts.length === 0 && resources.length === 0) throw
AfterParse(t, p, r) ==
    IF Len(t) = 0 /\ Len(p) = 0 /\ Len(r) = 0 THEN "failed: no functions" ELSE "mkdir"

CheckEmpty ==
    /\ gen = "check"
    /\ gen' = AfterParse(tools, prompts, resources)
    /\ UNCHANGED <<fn, jsDoc, tools, prompts, resources, files, server>>
    /\ UNCHANGED <<serverVars, toolVars, listed, synthVars>>

\* await mkdir(outputDir, { recursive: true })
Mkdir ==
    /\ gen = "mkdir"
    /\ files' = files \cup {"outputDir"}
    /\ gen' = "bundle"
    /\ UNCHANGED <<fn, jsDoc, tools, prompts, resources, server>>
    /\ UNCHANGED <<serverVars, toolVars, listed, synthVars>>

\* await build({ entryPoints: [entryPath], ..., outfile: tools.mjs })
BundleTools(ok) ==
    /\ gen = "bundle"
    /\ IF ok THEN files' = files \cup {"tools.mjs"} /\ gen' = "declare"
       ELSE UNCHANGED files /\ gen' = "failed: build"
    /\ UNCHANGED <<fn, jsDoc, tools, prompts, resources, server>>
    /\ UNCHANGED <<serverVars, toolVars, listed, synthVars>>

\* npx tsc --declaration; a failure is caught and only warned about
Declarations(ok) ==
    /\ gen = "declare"
    /\ files' = IF ok THEN files \cup {"tools.d.ts"} ELSE files
    /\ gen' = "write"
    /\ UNCHANGED <<fn, jsDoc, tools, prompts, resources, server>>
    /\ UNCHANGED <<serverVars, toolVars, listed, synthVars>>

NoServer ==
    [imports |-> <<>>, tools |-> <<>>, prompts |-> <<>>, resources |-> <<>>,
     capabilities |-> {}, handlers |-> {}, subscribeMatches |-> <<>>]

\* One registration of the emitted code: server.registerTool("${tool.name}",
\* ...) whose handler runs `await ${tool.name}(...)`; likewise prompts and
\* resources.
Registration(def) == [registered |-> def.name, calls |-> def.name]

\* resource.mimeType ? JSON.stringify(resource.mimeType) : "text/plain"
defaultMimeType(resource) ==
    IF resource.mimeType # "" THEN resource.mimeType ELSE "text/plain"

\* A generator that gives every listable resource a listing callback.
uriArgListsStatic(resource) ==
    IF resource.hasList THEN [template |-> resource.parameters > 0, list |-> "callback"]
    ELSE [template |-> resource.parameters > 0, list |-> "undefined"]

\* uriArg: new ResourceTemplate(uri, { list: callback }), new
\* ResourceTemplate(uri, { list: undefined }), or the uri itself.
uriArg(resource) ==
    IF resource.parameters > 0 THEN
        IF resource.hasList THEN [template |-> TRUE, list |-> "callback"]
        ELSE [template |-> TRUE, list |-> "undefined"]
    ELSE [template |-> FALSE, list |-> "none"]

\* server.registerResource("${resource.name}", ${uriArg}, ..., ${readCallback});
\* a listing callback runs `await ${resource.name}.list()` and maps the items
\* with the resource's default MIME type.
ResourceRegistration(resource) ==
    [registered |-> resource.name, calls |-> resource.name, uri |-> resource.uri,
     uriArg |-> uriArg(resource), defaultMimeType |-> defaultMimeType(resource)]

\* A generator that declares the capability whenever the IR has a resource.
generateCapabilitiesAnyResource(r) == IF Len(r) > 0 THEN {"resources.subscribe"} ELSE {}

\* generateCapabilities: resources.some((r) => r.subscribeType)
generateCapabilities(r) ==
    IF \E i \in 1..Len(r) : r[i].subscribeType # "" THEN {"resources.subscribe"} ELSE {}

\* subscriptionHelpersInner: the request schemas a handler is installed for,
\* emitted when hasSubscriptions (resources.some((r) => r.subscribeType)).
subscriptionHelpersInner(r) ==
    IF \E i \in 1..Len(r) : r[i].subscribeType # ""
    THEN {"SubscribeRequestSchema", "UnsubscribeRequestSchema"} ELSE {}

\* subscribeMatches: one line per resource with a subscribeType, in order.
subscribeMatches(r) ==
    LET subscribable == SelectSeq(r, LAMBDA x : x.subscribeType # "") IN
    [i \in 1..Len(subscribable) |->
        [uri |-> subscribable[i].uri,
         helper |-> IF subscribable[i].subscribeType = "generator"
                    THEN "__generatorSubscription" ELSE "__asyncSubscription",
         calls |-> subscribable[i].name]]

\* generateServerCode: allImports, the three lists of registrations, the
\* capabilities argument of new McpServer and the subscription code.
generateServerCode(t, p, r) ==
    [imports |-> [i \in 1..Len(t) |-> Registration(t[i]).calls]
                 \o [i \in 1..Len(p) |-> Registration(p[i]).calls]
                 \o [i \in 1..Len(r) |-> ResourceRegistration(r[i]).calls],
     tools |-> [i \in 1..Len(t) |-> Registration(t[i])],
     prompts |-> [i \in 1..Len(p) |-> Registration(p[i])],
     resources |-> [i \in 1..Len(r) |-> ResourceRegistration(r[i])],
     capabilities |-> generateCapabilities(r),
     handlers |-> subscriptionHelpersInner(r),
     subscribeMatches |-> subscribeMatches(r)]

\* await writeFile(serverPath, generateServerCode(tools, prompts, resources, name))
WriteServer ==
    /\ gen = "write"
    /\ server' = generateServerCode(tools, prompts, resources)
    /\ files' = files \cup {"server.ts"}
    /\ gen' = "bundleServer"
    /\ UNCHANGED <<fn, jsDoc, tools, prompts, resources>>
    /\ UNCHANGED <<serverVars, toolVars, listed, synthVars>>

\* Whether a name is imported twice by `import { ... } from "./tools.mjs"`.
DuplicateImport(imports) ==
    \E i, j \in 1..Len(imports) : i # j /\ imports[i] = imports[j]

\* await build({ entryPoints: [serverPath], ..., external: ["./tools.mjs"] }):
\* the bundler rejects a module that declares one name twice.
BundleServer(ok) ==
    /\ gen = "bundleServer"
    /\ ok => ~DuplicateImport(server.imports)
    /\ IF ok THEN files' = files \cup {"server.mjs"} /\ gen' = "package"
       ELSE UNCHANGED files /\ gen' = "failed: build"
    /\ UNCHANGED <<fn, jsDoc, tools, prompts, resources, server>>
    /\ UNCHANGED <<serverVars, toolVars, listed, synthVars>>

\* await writeFile(join(outputDir, "package.json"), ...)
WritePackage ==
    /\ gen = "package"
    /\ files' = files \cup {"package.json"}
    /\ gen' = "done"
    /\ UNCHANGED <<fn, jsDoc, tools, prompts, resources, server>>
    /\ UNCHANGED <<serverVars, toolVars, listed, synthVars>>

\* node server.mjs: the static import of ./tools.mjs links, or fails on a
\* name tools.mjs does not export.
LoadServer ==
    /\ gen = "done"
    /\ gen' = IF \A i \in 1..Len(server.imports) : server.imports[i] \in Exports
              THEN "loaded" ELSE "failed: load"
    /\ UNCHANGED <<fn, jsDoc, tools, prompts, resources, files, server>>
    /\ UNCHANGED <<serverVars, toolVars, listed, synthVars>>

\* ------------------------------------------------------- resource listing
\* Number of entries a list attachment returns.
MaxItems == 2

\* An address, split at "/": "sys://n/1" is <<"sys:", "", "n", "1">>.
\* Names are kept as sequences of one text, so that a name may also be an
\* address.
Address(last) == <<"sys:", "", "n", last>>

\* The entries a list attachment may return: a bare address, or an object
\* with uri, name and optionally mimeType.  (An object without name is not
\* among them: whether ResourceSchema.parse returns or throws on it is
\* decided by the SDK.)
BareEntry(uri) == [is |-> "string", uri |-> uri, name |-> <<>>, mimeType |-> ""]
ObjectEntry(uri, name, mimeType) ==
    [is |-> "object", uri |-> uri, name |-> name, mimeType |-> mimeType]
ListEntries ==
    {BareEntry(Address("1")),
     ObjectEntry(Address("2"), <<"Two">>, ""),
     ObjectEntry(Address("3"), <<"Three">>, "text/csv")}

RECURSIVE SeqsUpTo(_, _)
\* The sequences over set of length at most n.
SeqsUpTo(set, n) ==
    IF n = 0 THEN {<<>>}
    ELSE SeqsUpTo(set, n - 1)
         \cup {Append(q, x) : q \in {r \in SeqsUpTo(set, n - 1) : Len(r) = n - 1}, x \in set}

\* const getName = (uri) => uri.split("/").pop() || uri
getName(uri) == IF uri[Len(uri)] # "" THEN <<uri[Len(uri)]>> ELSE uri

\* __parseListItem(item, defaultMimeType)
parseListItem(item, default) ==
    IF item.is = "string"
    THEN [uri |-> item.uri, name |-> getName(item.uri), mimeType |-> default]
    ELSE [uri |-> item.uri,
          name |-> IF item.name # <<>> THEN item.name ELSE getName(item.uri),
          mimeType |-> IF item.mimeType # "" THEN item.mimeType ELSE default]

NoListing == [of |-> "", items |-> <<>>, resources |-> <<>>]

\* The listing callback of a registration:
\* const items = await ${resource.name}.list();
\* return { resources: items.map((item) => __parseListItem(item, ${defaultMimeType})) }
listCallback(reg, items) ==
    [of |-> reg.calls, items |-> items,
     resources |-> [j \in 1..Len(items) |-> parseListItem(items[j], reg.defaultMimeType)]]

\* The SDK answers resources/list: it runs the listing callback of the i-th
\* registered resource, whose list attachment returns items.  The callback
\* keeps no state: the first request after the start stands for every later
\* one.
ListResources(i, items) ==
    /\ gen = "loaded"
    /\ listed = NoListing
    /\ i \in 1..Len(server.resources)
    /\ server.resources[i].uriArg.list = "callback"
    /\ listed' = listCallback(server.resources[i], items)
    /\ UNCHANGED <<gen, fn, jsDoc, tools, prompts, resources, files, server>>
    /\ UNCHANGED <<serverVars, toolVars, synthVars>>

\* ------------------------------------------------------------- specification
\* The state once main() has taken its branch, for the command line in start.
Started(start) ==
    /\ startup = start
    /\ mode = MainBranch(ParseArgs(start))
    /\ phase = "running"
    /\ transport = [t \in Instances |-> "unused"]
    /\ transports = [sid \in Instances |-> 0]
    /\ closeQueue = {}
    /\ shutdownKeys = {}
    /\ subscriptions = [i \in Instances |-> [u \in Uris |-> 0]]
    /\ task = [i \in Instances |-> [u \in Uris |-> [k \in Slots |-> NoTask]]]
    /\ inflight = [i \in Instances |-> [u \in Uris |-> 0]]
    /\ resp = Plain(0)

\* No tool is under generation.
NoTool ==
    /\ outputSchema = NoSchema
    /\ registration = NoRegistration
    /\ result = NoValue
    /\ response = NoResponse

\* No generation is under way.
NoBuild ==
    /\ gen = "idle"
    /\ fn = 0
    /\ jsDoc = EmptyJsDoc
    /\ tools = <<>> /\ prompts = <<>> /\ resources = <<>>
    /\ files = {}
    /\ server = NoServer
    /\ listed = NoListing

\* The server started without a port, or with --port 3000.
Init ==
    /\ \E start \in {[arg |-> "none", env |-> "none"], [arg |-> "3000", env |-> "none"]} :
            Started(start)
    /\ NoTool
    /\ NoBuild
    /\ NoSynth

\* The server started with any command line and environment of Startups.
StartupInit ==
    (\E start \in Startups : Started(start)) /\ NoTool /\ NoBuild /\ NoSynth

\* A tool of the IR with any schema of OutputSchemas, before its registration
\* is generated.
ToolInit ==
    /\ outputSchema \in OutputSchemas
    /\ registration = NoRegistration
    /\ result = NoValue
    /\ response = NoResponse
    /\ Started([arg |-> "none", env |-> "none"])
    /\ NoBuild
    /\ NoSynth

ToolNext ==
    \/ GenerateToolRegistration
    \/ \E value \in ValuesOf(outputSchema) : CallTool(value)

\* Generation of one tool's registration, and calls of the registered tool.
ToolSpec == ToolInit /\ [][ToolNext]_vars

\* The steps that touch the subscription state or decide which of its steps
\* are enabled: subscription requests, task steps, the session life cycle and
\* shutdown.
LifecycleNext ==
    \/ \E i \in Instances, u \in Uris : Subscribe(i, u)
    \/ \E i \in Instances, u \in Uris : Unsubscribe(i, u)
    \/ \E i \in Instances, u \in Uris, k \in Slots : PollResolved(i, u, k)
    \/ \E i \in Instances, u \in Uris, k \in Slots : PollRejected(i, u, k)
    \/ \E i \in Instances, u \in Uris, k \in Slots : NotifyResolved(i, u, k)
    \/ \E i \in Instances, u \in Uris, k \in Slots : NotifyFailed(i, u, k)
    \/ \E i \in Instances, u \in Uris, k \in Slots : GenYielded(i, u, k)
    \/ \E i \in Instances, u \in Uris, k \in Slots : GenEnded(i, u, k)
    \/ \E i \in Instances, u \in Uris, k \in Slots : GenThrew(i, u, k)
    \/ \E i \in Instances, u \in Uris, k \in Slots : GenReturned(i, u, k)
    \/ \E sid \in ClientIds, body \in Bodies : PostInitialize(sid, body)
    \/ \E t \in Instances, ok \in BOOLEAN : InitializeHandled(t, ok)
    \/ \E sid \in ClientIds, ok \in BOOLEAN : HttpDelete(sid, ok)
    \/ \E ok \in BOOLEAN : Sigint(ok)
    \/ \E ok \in BOOLEAN : ShutdownResume(ok)
    \/ HttpBadUrl

\* The requests whose only effect is the response they write.
ResponseNext ==
    \/ \E sid \in ClientIds, body \in Bodies, ok \in BOOLEAN :
          HttpPost(sid, body, ok)
    \/ \E sid \in ClientIds, ok \in BOOLEAN : HttpGet(sid, ok)
    \/ HttpOtherMethod
    \/ HttpOtherPath

Next == LifecycleNext \/ ResponseNext

Spec == Init /\ [][Next]_vars

\* The same steps from every startup of Startups.
StartupSpec == StartupInit /\ [][Next]_vars


\* generateMcpServer is called on a module of up to MaxFns exported functions.
BuildInit ==
    /\ gen = "function"
    /\ fn = 1
    /\ jsDoc = EmptyJsDoc
    /\ tools = <<>> /\ prompts = <<>> /\ resources = <<>>
    /\ files = {}
    /\ server = NoServer
    /\ listed = NoListing
    /\ NoTool
    /\ NoSynth
    /\ Started([arg |-> "none", env |-> "none"])

\* The steps of parseTypeScriptFile and generateMcpServer, and the start of
\* the generated server.
BuildNext ==
    \/ SkipFunction
    \/ BeginComment
    \/ \E l \in DocLines : ReadLine(l)
    \/ EndOfComment
    \/ EndOfFile
    \/ CheckEmpty
    \/ Mkdir
    \/ \E ok \in BOOLEAN : BundleTools(ok)
    \/ \E ok \in BOOLEAN : Declarations(ok)
    \/ WriteServer
    \/ \E ok \in BOOLEAN : BundleServer(ok)
    \/ WritePackage
    \/ LoadServer

\* Extraction and generation for one input module, up to loading the
\* generated server.
BuildSpec == BuildInit /\ [][BuildNext]_vars

\* Number of resources of an IR given to generateServerCode.
MaxResources == 2

\* The addresses of the resources of such an IR, by position.
ResourceUris == <<"sys://a", "sys://b", "sys://c">>

\* What the generator reads of a ResourceDefinition besides name and uri.  A
\* @mimeType tag is given to resources that get a listing callback only; for
\* the others the default MIME type is used by the read callback alone.
ResourceShapes ==
    {shape \in [parameters : {0, 1}, subscribeType : {"", "generator", "async"},
                hasList : BOOLEAN, mimeType : {"", "application/json"}] :
        shape.mimeType # "" => (shape.parameters > 0 /\ shape.hasList)}

\* The IR collections of resources: the first n functions of the module, each
\* of any shape.
ResourceCollections ==
    UNION {{[i \in 1..n |->
                [name |-> FnNames[i], uri |-> ResourceUris[i], fn |-> FnNames[i],
                 mimeType |-> shape[i].mimeType, parameters |-> shape[i].parameters,
                 subscribeType |-> shape[i].subscribeType, hasList |-> shape[i].hasList]] :
             shape \in [1..n -> ResourceShapes]} : n \in 0..MaxResources}

\* generateMcpServer has parsed a module of MaxResources + 1 functions and
\* bundled it: any collection of resources, and the last function as a tool
\* or left out; the IR is not empty.
EmitInit ==
    /\ gen = "write"
    /\ fn = MaxResources + 2
    /\ jsDoc = EmptyJsDoc
    /\ tools \in {<<>>, <<ToolDefinition(EmptyJsDoc, FnNames[MaxResources + 1])>>}
    /\ prompts = <<>>
    /\ resources \in ResourceCollections
    /\ Len(tools) + Len(resources) > 0
    /\ files = {"outputDir", "tools.mjs", "tools.d.ts"}
    /\ server = NoServer
    /\ listed = NoListing
    /\ NoTool
    /\ NoSynth
    /\ Started([arg |-> "none", env |-> "none"])

EmitNext ==
    \/ WriteServer
    \/ \E ok \in BOOLEAN : BundleServer(ok)
    \/ WritePackage
    \/ LoadServer
    \/ \E i \in 1..MaxResources, items \in SeqsUpTo(ListEntries, MaxItems) :
          ListResources(i, items)

\* Code generation for every IR of ResourceCollections, and listing requests
\* to the loaded server.
EmitSpec == EmitInit /\ [][EmitNext]_vars

\* parseTypeToOutputSchema is called on the return type of a tool: string,
\* void or Date, or the first type of a type graph of TypeTables.
SynthInit ==
    /\ \/ typeTable \in TypeTables /\ stack = <<Frame(1)>>
       \/ typeTable = <<>> /\ \E t \in LeafTypes : stack = <<Frame(t)>>
    /\ synth = Pending
    /\ NoTool
    /\ NoBuild
    /\ Started([arg |-> "none", env |-> "none"])

SynthNext == SynthCall \/ SynthReturn

\* The walk of parseTypeToOutputSchema over every type graph of TypeTables.
SynthSpec == SynthInit /\ [][SynthNext]_vars

\* The same walk, where a call in progress eventually takes its next step.
SynthFairSpec == SynthInit /\ [][SynthNext]_vars /\ WF_vars(SynthNext)

\* Every pending poll, producer step, notification send and iterator return
\* eventually settles while the process is alive.
Fairness ==
    \A i \in Instances, u \in Uris, k \in Slots : WF_vars(TaskStep(i, u, k))

\* The specification for liveness: the steps of LifecycleNext under Fairness.
\* The requests of ResponseNext write resp only and enable or disable nothing,
\* so leaving them out removes no behaviour of the subscription state.
FairSpec == Init /\ [][LifecycleNext]_vars /\ Fairness

\* ===================================================================== claims
OtherAddressesUnchanged(i, u) ==
    \A j \in Instances, v \in Uris :
        <<j, v>> # <<i, u>> =>
            /\ task'[j][v] = task[j][v]
            /\ subscriptions'[j][v] = subscriptions[j][v]
            /\ inflight'[j][v] = inflight[j][v]

\* C1: in every reachable state, each address of each server instance has at
\* most one driving task that has not returned.
C1_AtMostOneTaskPerAddress ==
    \A i \in Instances, u \in Uris : Cardinality(LiveTasks(i, u)) <= 1

\* C1 witness: an address that was unsubscribed while its generator task is
\* still leaving its loop (entry kept, task alive), the window in which a
\* second task could be started.
C1_Witness ==
    \E i \in Instances :
        /\ Stopping(i, "gen") /\ Entry(i, "gen").pc = "closing"
        /\ Active(i, "poll") /\ Cardinality(LiveTasks(i, "poll")) = 1

\* C2: a subscribe step on an untracked address of a subscribable resource
\* leaves the address Active with exactly one more live task, and touches no
\* other address; a subscribe step on an Active address changes nothing.
C2_SubscribeLaunchesOnce ==
    [][\A i \in Instances, u \in Uris :
          Subscribe(i, u) =>
            /\ (~Tracked(i, u) /\ SubscribeType(u) # "none") =>
                  /\ Active(i, u)'
                  /\ LiveTasks(i, u) \subseteq LiveTasks(i, u)'
                  /\ Cardinality(LiveTasks(i, u)') = Cardinality(LiveTasks(i, u)) + 1
                  /\ OtherAddressesUnchanged(i, u)
            /\ Active(i, u) => UNCHANGED <<subscriptions, task, inflight>>
      ]_vars

\* C2 witness: an Active address whose single task waits for its first poll
\* while the instance's other address is Active too.
C2_Witness ==
    \E i \in Instances :
        /\ Active(i, "poll") /\ Entry(i, "poll").pc = "poll"
        /\ LiveTasks(i, "poll") = {subscriptions[i]["poll"]}
        /\ Active(i, "gen")

\* C3: an unsubscribe step on a tracked address leaves the entry in the map,
\* marked Stopping, moves no task from its suspension point, changes no
\* in-flight notification and no other address; on an untracked address it
\* changes nothing of the subscription state.
C3_UnsubscribeOnlyMarks ==
    [][\A i \in Instances, u \in Uris :
          Unsubscribe(i, u) =>
            /\ subscriptions' = subscriptions
            /\ inflight' = inflight
            /\ \A j \in Instances, v \in Uris, k \in Slots :
                  task'[j][v][k].pc = task[j][v][k].pc
            /\ OtherAddressesUnchanged(i, u)
            /\ Tracked(i, u) => Stopping(i, u)'
            /\ ~Tracked(i, u) => task' = task
      ]_vars

\* C3 witness: a Stopping entry whose task still waits for its pending poll,
\* next to a Stopping entry whose notification send is still in flight.
C3_Witness ==
    \E i \in Instances :
        /\ Stopping(i, "poll") /\ Entry(i, "poll").pc = "poll"
        /\ Stopping(i, "gen") /\ Entry(i, "gen").pc = "notify" /\ inflight[i]["gen"] = 1

\* C4: from a state in which an address is Stopping, no step starts a
\* notification send for it, starts a poll for it, or moves one of its tasks
\* to a notification.
C4_NoNotificationOnceStopping ==
    [][\A i \in Instances, u \in Uris :
          Stopping(i, u) =>
            /\ inflight'[i][u] <= inflight[i][u]
            /\ \A k \in Slots :
                  /\ task'[i][u][k].pc = "notify" => task[i][u][k].pc = "notify"
                  /\ task'[i][u][k].pc = "poll" => task[i][u][k].pc = "poll"
      ]_vars

\* C4 witness: the poll-driven address is Stopping with its poll still pending
\* and no notification in flight, while the generator-driven task has
\* discarded its item and is leaving its loop, no notification in flight.
C4_Witness ==
    \E i \in Instances :
        /\ Stopping(i, "poll") /\ Entry(i, "poll").pc = "poll" /\ inflight[i]["poll"] = 0
        /\ Stopping(i, "gen") /\ Entry(i, "gen").pc = "closing" /\ inflight[i]["gen"] = 0

\* C5: under FairSpec (pending task operations settle), an address that is
\* Stopping eventually becomes untracked with no live task, unless the
\* process ends first.
C5_StoppingLeadsToUntracked ==
    \A i \in Instances, u \in Uris :
        Stopping(i, u) ~> ((~Tracked(i, u) /\ LiveTasks(i, u) = {}) \/ ~Alive)

\* C5 witness: an address that is untracked again, with no task, in an
\* instance whose other address is Stopping with its task still waiting.
C5_Witness ==
    \E i \in Instances :
        /\ ~Tracked(i, "poll") /\ LiveTasks(i, "poll") = {}
        /\ Stopping(i, "gen") /\ Entry(i, "gen").pc = "next"
        /\ Alive

\* C6: a step of a task in which its poll rejects, its producer throws or its
\* notification send fails leaves the process running, changes no other address, and
\* leaves the failing address untracked with no live task; in generator mode
\* a failed send first leaves the entry Stopping while the task awaits the
\* producer's return(), and the step in which that settles removes the entry.
\* A subscribe step that starts a task starts it on an untracked address, as
\* the only live task, with a new Active entry.
C6_FailureEndsOnlyThatTask ==
    [][\A i \in Instances, u \in Uris, k \in Slots :
        task'[i][u][k] # task[i][u][k] =>
          /\ (PollRejected(i, u, k) \/ GenThrew(i, u, k) \/ NotifyFailed(i, u, k)) =>
                /\ phase' = phase
                /\ OtherAddressesUnchanged(i, u)
                /\ \/ ~Tracked(i, u)' /\ LiveTasks(i, u)' = {}
                   \/ /\ SubscribeType(u) = "generator"
                      /\ task[i][u][k].pc = "notify"
                      /\ Stopping(i, u)' /\ LiveTasks(i, u)' = {k}
                      /\ task'[i][u][k].pc = "closing"
          /\ GenReturned(i, u, k) =>
                /\ phase' = phase
                /\ OtherAddressesUnchanged(i, u)
                /\ ~Tracked(i, u)' /\ LiveTasks(i, u)' = {}
          /\ (Subscribe(i, u) /\ task[i][u][k].pc = "none") =>
                /\ ~Tracked(i, u)
                /\ Active(i, u)' /\ subscriptions'[i][u] = k
                /\ LiveTasks(i, u)' = {k}
      ]_vars

\* C6 witness: after a failure an address is untracked with no task while the
\* same instance's other address is still Active with its task alive, and the
\* process is running.
C6_Witness ==
    \E i \in Instances :
        /\ phase = "running"
        /\ ~Tracked(i, "gen") /\ LiveTasks(i, "gen") = {}
        /\ Active(i, "poll") /\ Entry(i, "poll").pc = "notify"

\* C7: at most one notification send per address is unresolved, and while one
\* is, no task of that address waits for a poll or for a producer item.
C7_SequentialUpdates ==
    \A i \in Instances, u \in Uris :
        /\ inflight[i][u] <= 1
        /\ inflight[i][u] = 1 =>
              \A k \in Slots : task[i][u][k].pc \notin {"poll", "next"}
        /\ inflight[i][u] = Cardinality({k \in Slots : task[i][u][k].pc = "notify"})

\* C7 witness: both addresses of an instance have a notification in flight.
C7_Witness ==
    \E i \in Instances : inflight[i]["poll"] = 1 /\ inflight[i]["gen"] = 1

\* C8: when the process has exited, every tracked subscription of every
\* server instance is marked Stopping.
C8_ShutdownMarksStopping ==
    phase = "exited" =>
        \A i \in Instances, u \in Uris : Tracked(i, u) => Stopping(i, u)

\* C9: when the process has ended after a shutdown (by process.exit or by the
\* runtime ending it on the handler's unhandled rejection), every session
\* that was in the registry when the shutdown started has been closed.
C9_ShutdownClosesAllSessions ==
    phase \in {"exited", "crashed"} =>
        \A sid \in shutdownKeys : transport[sid] = "closed"

UnknownSession(sid) == sid = 0 \/ ~Registered(sid)

C11_SessionCreatedOnlyByInitializePost ==
    [][/\ (\E t \in Instances : transport[t] = "unused" /\ transport'[t] # "unused") =>
              \E sid \in ClientIds, body \in Bodies : PostInitialize(sid, body)
       /\ transport' # transport =>
              \A sid \in ClientIds, body \in Bodies :
                  PostInitialize(sid, body) => (sid = 0 /\ body = "init")
       /\ resp' # resp =>
            \A sid \in ClientIds :
              Registered(sid) =>
                \A body \in Bodies, ok \in BOOLEAN :
                    HttpPost(sid, body, ok) =>
                        /\ UNCHANGED <<transport, transports, subscriptions, task, inflight>>
                        /\ body # "bad" =>
                              resp' = IF ok THEN Plain(200) ELSE SendError(-32603, 500)
      ]_vars

\* C11 witness: a session created by an initialize POST is registered and
\* open, and a later request carrying its identifier was handed to its
\* transport, whose handler threw.
C11_Witness ==
    /\ mode = "http"
    /\ \E sid \in Instances : Registered(sid) /\ transport[transports[sid]] = "open"
    /\ resp = SendError(-32603, 500)
    /\ \A t \in Instances : transport[t] # "unused"

\* A request step in which an exception was raised is answered with error
\* -32603 and status 500 and leaves the process serving.
AnsweredInternalError == resp' = SendError(-32603, 500) /\ phase' = phase

\* C12: every multi-session request step in which an exception is raised (the
\* body is not JSON, the SDK call of the request throws, or the request's URL
\* cannot be parsed) is answered with error -32603 and status 500, and the
\* process keeps serving.
C12_ExceptionsAnsweredWith500 ==
    [][/\ \A sid \in ClientIds :
              /\ HttpPost(sid, "bad", TRUE) => AnsweredInternalError
              /\ \A body \in Bodies : HttpPost(sid, body, FALSE) => AnsweredInternalError
              /\ HttpGet(sid, FALSE) => AnsweredInternalError
              /\ HttpDelete(sid, FALSE) => AnsweredInternalError
       /\ \A t \in Instances : InitializeHandled(t, FALSE) => AnsweredInternalError
       /\ HttpBadUrl => AnsweredInternalError
      ]_vars

\* Whether a port was supplied on the command line or in the environment.
PortSupplied == startup.arg # "none" \/ startup.env # "none"

\* C13: the server is in multi-session mode exactly when a port was supplied
\* through --port or MCP_PORT, and no step changes the mode.
C13_ModeFollowsPortSupplied ==
    /\ [](PortSupplied <=> mode = "http")
    /\ [][mode' = mode /\ startup' = startup]_vars

\* An object schema with an array-typed member named content.
HasContentArrayMember(schema) ==
    \E i \in 1..Len(schema.properties) :
        schema.properties[i].name = "content" /\ schema.properties[i].type = "array"

\* The registered validator is the one emitted for schema and accepts every
\* value of that shape.
ValidatorMatches(schema) ==
    /\ registration.validator = outputSchemaToZod(schema)
    /\ \A v \in ValuesOf(schema) : ZodAccepts(registration.validator, v)

\* The response carries the JSON rendering of the result and the result
\* itself as structured content.
TextAndStructuredResult ==
    /\ response.is = "built"
    /\ response.text = JsonStringify(result)
    /\ response.structuredContent = result

C15_ArrayWrappedObjectNot ==
    registration # NoRegistration =>
        /\ outputSchema.type = "array" =>
              /\ registration.validator =
                    ZObject(<<[name |-> "results", zod |-> outputSchemaToZod(outputSchema)]>>)
              /\ \A v \in ValuesOf(outputSchema) :
                    ZodAccepts(registration.validator,
                               ObjectValue(<<[name |-> "results", value |-> v]>>))
              /\ response # NoResponse =>
                    /\ response.is = "built"
                    /\ response.text = JsonStringify(result)
                    /\ response.structuredContent =
                          ObjectValue(<<[name |-> "results", value |-> result]>>)
        /\ outputSchema.type = "object" =>
              /\ registration.validator \in {NoZod, outputSchemaToZod(outputSchema)}
              /\ response # NoResponse =>
                    /\ response.structuredContent \in {NoValue, result}
                    /\ response.is = "result" => response.result = result

\* C15 witness: a tool whose schema is an array of objects returned a
\* one-element array, and the response wraps it.
C15_Witness ==
    /\ outputSchema.type = "array"
    /\ outputSchema.items.type = "object"
    /\ response # NoResponse
    /\ Len(result.elems) = 1
    /\ FieldValue(response.structuredContent, "results") = result

\* Whether the block read so far has a line of the given tag.
HasTag(tag) == \E l \in jsDoc.lines : l.tag = tag

\* The definitions, in all three collections, that came from function name.
Placed(name, t, p, r) ==
    Cardinality({i \in 1..Len(t) : t[i].fn = name})
    + Cardinality({i \in 1..Len(p) : p[i].fn = name})
    + Cardinality({i \in 1..Len(r) : r[i].fn = name})

C17_UriTagMakesResource ==
    [][(EndOfComment /\ jsDoc.descriptionLines > 0 /\ HasTag("@uri")) =>
          resources' = Append(resources,
                              [name |-> FnNames[fn], uri |-> TagUri, fn |-> FnNames[fn]])
      ]_vars

\* Whether all definitions of a collection have different names.
UniqueNames(defs) ==
    \A i, j \in 1..Len(defs) : i # j => defs[i].name # defs[j].name

\* C18: names are unique within the tools, within the prompts and within
\* the resources.
C18_NamesUniquePerCollection ==
    UniqueNames(tools) /\ UniqueNames(prompts) /\ UniqueNames(resources)

\* The function a call of `name(...)` in the generated server reaches: the
\* export of that name, if tools.mjs has one.
Invoked(name) == IF name \in Exports THEN name ELSE "unresolved"

\* C19: once the server code is generated, every tool and prompt with a
\* custom name is registered under that name and its handler invokes the
\* exported function the definition came from.
C19_CustomNameInvokesOriginal ==
    server # NoServer =>
        /\ \A i \in 1..Len(tools) :
              tools[i].name # tools[i].fn =>
                  /\ server.tools[i].registered = tools[i].name
                  /\ Invoked(server.tools[i].calls) = tools[i].fn
        /\ \A i \in 1..Len(prompts) :
              prompts[i].name # prompts[i].fn =>
                  /\ server.prompts[i].registered = prompts[i].name
                  /\ Invoked(server.prompts[i].calls) = prompts[i].fn

\* C20: once extraction has returned no tool, no prompt and no resource,
\* generation has failed with the "no functions" error, and whenever it has
\* failed so nothing has been created in the file system and no server code
\* has been generated.
C20_EmptyFailsBeforeOutput ==
    /\ (gen \notin {"idle", "function", "lines", "check"}
        /\ tools = <<>> /\ prompts = <<>> /\ resources = <<>>) =>
            gen = "failed: no functions"
    /\ gen = "failed: no functions" => (files = {} /\ server = NoServer)

\* C20 witness: generation failed on a module of two exported functions, none
\* of which was extracted.
C20_Witness ==
    /\ gen = "failed: no functions"
    /\ fn = 3
    /\ files = {}

\* C25: a subscribe step on an address whose entry is Stopping changes nothing
\* of the subscription state; and no step at all takes a Stopping address
\* back to Active, starts a task for it or starts a notification send for it:
\* the address stays Stopping until its old task returns, and is then
\* untracked with no live task.
C25_SubscribeWhileStoppingIsNoOp ==
    [][subVars' # subVars =>
       \A i \in Instances, u \in Uris :
          Stopping(i, u) =>
            /\ Subscribe(i, u) => UNCHANGED subVars
            /\ ~Active(i, u)'
            /\ LiveTasks(i, u)' \subseteq LiveTasks(i, u)
            /\ inflight'[i][u] <= inflight[i][u]
            /\ ~Tracked(i, u)' => LiveTasks(i, u)' = {}
      ]_vars

\* C25 witness: an instance that can still receive requests has both of its
\* subscribable addresses Stopping, the poll-driven one with its poll pending
\* and the generator-driven one waiting for the producer: a subscribe for
\* either arrives before the old task has reached its loop boundary.
C25_Witness ==
    \E i \in Instances :
        /\ Connected(i)
        /\ Stopping(i, "poll") /\ Entry(i, "poll").pc = "poll"
        /\ Stopping(i, "gen") /\ Entry(i, "gen").pc = "next"

C28_SessionCloseLeavesSubscriptions ==
    [][/\ transport' # transport =>
            \A t \in Instances :
                (transport[t] = "open" /\ transport'[t] = "closed") =>
                    /\ transports[t] = t /\ transports'[t] = 0
                    /\ UNCHANGED <<subscriptions, task, inflight>>
       /\ subVars' # subVars =>
            \A i \in Instances, u \in Uris :
                (mode = "http" /\ transport[i] = "closed") =>
                    /\ inflight'[i][u] < inflight[i][u] =>
                          \E k \in Slots : NotifyFailed(i, u, k)
                    /\ (Active(i, u) /\ ~Active(i, u)') =>
                          \E k \in Slots : \/ NotifyFailed(i, u, k)
                                           \/ PollRejected(i, u, k)
                                           \/ GenThrew(i, u, k)
      ]_vars

\* C28 witness: a session was closed by a DELETE (the process is running, the
\* registry no longer has its key) and both addresses of its server instance
\* are still Active, the poll-driven task polling on and the generator-driven
\* one about to send a notification that can only fail.
C28_Witness ==
    \E i \in Instances :
        /\ mode = "http" /\ phase = "running"
        /\ transport[i] = "closed" /\ transports[i] = 0
        /\ Active(i, "poll") /\ Entry(i, "poll").pc = "poll"
        /\ Active(i, "gen") /\ Entry(i, "gen").pc = "notify"

\* A request carrying the identifier of a session whose transport has closed.
ClosedSession(sid) == sid \in Instances /\ transport[sid] = "closed"

\* The registry's keys and the life of each key: every key is the session
\* identifier of the transport it maps to, and that transport is open; a key
\* enters the registry only in the step in which its session is initialized
\* and leaves it only in the step in which its transport closes.
RegistryKeysAreSessionIds ==
    \A sid \in Instances :
        /\ transports[sid] # 0 => transports[sid] = sid
        /\ transports[sid] # 0 <=> transport[sid] = "open"

RegistryKeyEntersAndLeaves ==
    \A sid \in Instances :
        /\ (transports[sid] = 0 /\ transports'[sid] # 0) =>
              /\ InitializeHandled(sid, TRUE)
              /\ transport[sid] = "created"
        /\ (transports[sid] # 0 /\ transports'[sid] = 0) =>
              transport'[sid] = "closed"

\* C29 as stated: the registry's keys are as above, and after a transport has
\* closed every POST and GET carrying its identifier is answered with error
\* -32000 and status 400.
C29_ClosedSessionAlways400 ==
    /\ []RegistryKeysAreSessionIds
    /\ [][(resp' # resp \/ transports' # transports) =>
            /\ RegistryKeyEntersAndLeaves
            /\ \A sid \in ClientIds, body \in Bodies :
                  (ClosedSession(sid) /\ (HttpPost(sid, body, TRUE) \/ HttpGet(sid, TRUE))) =>
                      resp' = SendError(-32000, 400)
         ]_vars

\* C29 as amended: the registry's keys are as above, and after a transport
\* has closed a GET and a POST whose body is JSON carrying its identifier are
\* answered with error -32000 and status 400, a POST whose body is not JSON
\* with error -32603 and status 500; none of them changes the registry.
C29_ClosedSessionIsUnknown ==
    /\ []RegistryKeysAreSessionIds
    /\ [][(resp' # resp \/ transports' # transports) =>
            /\ RegistryKeyEntersAndLeaves
            /\ \A sid \in ClientIds :
                  ClosedSession(sid) =>
                      /\ \A body \in Bodies :
                            HttpPost(sid, body, TRUE) =>
                                /\ resp' = IF body = "bad" THEN SendError(-32603, 500)
                                           ELSE SendError(-32000, 400)
                                /\ UNCHANGED transports
                      /\ HttpGet(sid, TRUE) =>
                            resp' = SendError(-32000, 400) /\ UNCHANGED transports
         ]_vars

\* C29 witness: a session was initialized and then closed by a DELETE, its key
\* is gone from the registry, and a later request was refused with -32000 and
\* status 400 while the process is running.
C29_Witness ==
    \E sid \in Instances :
        /\ ClosedSession(sid) /\ transports[sid] = 0
        /\ phase = "running"
        /\ resp = SendError(-32000, 400)

\* The response was built by the handler and carries structured content.
AttachesStructuredContent ==
    response.is = "built" /\ response.structuredContent # NoValue

\* C27: a generated registration carries an output validator exactly when its
\* handler is one of the two that attach structuredContent, and exactly then
\* do the handler's responses carry it; for a tool whose output schema is
\* absent, a primitive or a record there is no validator and every response is
\* text only: the result itself when it is a string, otherwise
\* JSON.stringify(result).
C27_ValidatorIffStructuredContent ==
    registration # NoRegistration =>
        /\ registration.validator # NoZod <=> registration.handler \in {"wrapped", "structured"}
        /\ response # NoResponse =>
              (registration.validator # NoZod <=> AttachesStructuredContent)
        /\ (outputSchema = NoSchema \/ outputSchema.type \in {"string", "number", "boolean", "record"}) =>
              /\ registration = [validator |-> NoZod, handler |-> "text"]
              /\ response # NoResponse =>
                    response = Built(IF result.t = "string" THEN Itself(result)
                                     ELSE JsonStringify(result), NoValue)

\* C27 witness: a tool whose output schema is a record was called, returned a
\* record with an entry, and the response is the JSON text of it with no
\* structured content, from a registration without validator.
C27_Witness ==
    /\ outputSchema.type = "record"
    /\ registration.validator = NoZod
    /\ result.t = "object" /\ result.fields # <<>>
    /\ response = Built(JsonStringify(result), NoValue)

\* The validator a member's schema would get at top level, with the optional
\* marker when the member is optional.
TopLevelZod(schema, optional) ==
    IF optional THEN ZOptional(outputSchemaToZod(schema)) ELSE outputSchemaToZod(schema)

\* The members an object schema was synthesized from: every choice of member
\* schemas whose synthesized object is the schema.
MemberChoices(schema) ==
    {choice \in [1..MaxMembers -> {Absent} \cup [schema : MemberShapes, optional : BOOLEAN]] :
        ObjectFrom(choice) = schema}

\* C30: when the emitted validator is that of an object schema, each of its
\* members is the validator the member's own schema gets at top level, with
\* the optional marker for an optional member, whatever the member's shape
\* (primitive, array, nested object or record).
C30_ValidatorMirrorsSchema ==
    (outputSchema.type = "object" /\ registration.validator # NoZod) =>
        \A choice \in MemberChoices(outputSchema) :
            LET present == SelectSeq([i \in 1..MaxMembers |-> i], LAMBDA i : choice[i] # Absent)
            IN /\ Len(registration.validator.shape) = Len(present)
               /\ \A j \in 1..Len(present) :
                     registration.validator.shape[j] =
                         [name |-> AllMemberNames[present[j]],
                          zod |-> TopLevelZod(choice[present[j]].schema,
                                              choice[present[j]].optional)]

\* Whether the IR has a resource with a subscription mode.
HasSubscribable == \E i \in 1..Len(resources) : resources[i].subscribeType # ""

\* C21: once the server code is generated, it declares the capability
\* resources.subscribe exactly when some resource of the IR has a
\* subscribeType, installs the subscribe and unsubscribe request handlers
\* exactly then (both or neither), and the subscribe handler has one matching
\* line for each such resource and for no other.
C21_CapabilityIffSubscribable ==
    "server.ts" \in files =>
        /\ "resources.subscribe" \in server.capabilities <=> HasSubscribable
        /\ server.handlers = IF HasSubscribable
                             THEN {"SubscribeRequestSchema", "UnsubscribeRequestSchema"}
                             ELSE {}
        /\ \A i \in 1..Len(resources) :
              resources[i].subscribeType # "" <=>
                  \E j \in 1..Len(server.subscribeMatches) :
                      /\ server.subscribeMatches[j].calls = resources[i].name
                      /\ server.subscribeMatches[j].uri = resources[i].uri
                      /\ server.subscribeMatches[j].helper = "__generatorSubscription"
                            <=> resources[i].subscribeType = "generator"

\* C21 witness: the server was generated and loaded for an IR whose first
\* resource has no subscription mode and whose second is poll-driven; the
\* capability is declared and the handlers are installed.
C21_Witness ==
    /\ gen = "loaded"
    /\ Len(resources) = 2
    /\ resources[1].subscribeType = "" /\ resources[2].subscribeType = "async"
    /\ server.capabilities = {"resources.subscribe"}
    /\ server.handlers # {}

\* What a listing returned: one display record per entry, in order, with the
\* entry's address, the entry's name or else the last segment of its address,
\* and the entry's MIME type or else the resource's default.
ListingMapsEachEntry ==
    listed # NoListing =>
        \E i \in 1..Len(resources) :
            /\ resources[i].name = listed.of
            /\ resources[i].parameters > 0 /\ resources[i].hasList
            /\ Len(listed.resources) = Len(listed.items)
            /\ \A j \in 1..Len(listed.items) :
                  LET item == listed.items[j]
                      shown == listed.resources[j] IN
                  /\ shown.uri = item.uri
                  /\ shown.name = IF item.name # <<>> THEN item.name
                                  ELSE <<item.uri[Len(item.uri)]>>
                  /\ shown.mimeType =
                        IF item.mimeType # "" THEN item.mimeType
                        ELSE IF resources[i].mimeType # "" THEN resources[i].mimeType
                        ELSE "text/plain"

RECURSIVE WellFormed(_)
\* Whether a node of a schema tree (an OutputSchema, or a property of an
\* object node) has what its type needs: an array its items, a record its
\* valueType, an object at least one property, and so on below it.
WellFormed(node) ==
    CASE node.type \in {"string", "number", "boolean"} -> TRUE
      [] node.type = "array" -> node.items # NoSchema /\ WellFormed(node.items)
      [] node.type = "record" ->
            /\ "valueType" \in DOMAIN node
            /\ node.valueType # NoSchema
            /\ WellFormed(node.valueType)
      [] node.type = "object" ->
            /\ Len(node.properties) > 0
            /\ \A i \in 1..Len(node.properties) : WellFormed(node.properties[i])
      [] OTHER -> FALSE

\* C23: whatever parseTypeToOutputSchema returns is undefined or a well-formed
\* tree: every array node has items, every record node has a valueType, and
\* every object node has at least one property, at every depth.
C23_SchemaTreesWellFormed ==
    synth # Pending => (synth = NoSchema \/ WellFormed(synth))

\* Some type is being walked by two calls of the stack at once.
Revisits ==
    \E i, j \in 1..Len(stack) : i < j /\ stack[i].type = stack[j].type

\* C24: on a type graph without a cycle the walk returns (and its call stack
\* never holds a type twice); on a self-referential type graph the walk comes
\* back to a type it is already inside, and it never returns anything.
C24_TerminatesIffAcyclic ==
    /\ ~SelfReferential(typeTable) => (<>(synth # Pending) /\ []~Revisits)
    /\ SelfReferential(typeTable) => (<>Revisits /\ [](synth = Pending))

\* The walk of a self-referential type graph is inside the same type twice,
\* as deep as the model follows it, and has returned nothing.
C24_Witness ==
    /\ SelfReferential(typeTable)
    /\ Revisits
    /\ Len(stack) = MaxDepth
    /\ synth = Pending

====
